---- MODULE Spec2Model ----
(***************************************************************************)
(* Model of levelupapi/views/event.py: the EventView request handlers      *)
(* (create, retrieve, update, destroy, list, signup) over the relational   *)
(* store (Event rows, the Event/Gamer sign-up join table, and the fixed    *)
(* Game, Status and Gamer tables), and the serializers that render them.   *)
(*                                                                         *)
(* Every request runs to completion on its own, so each handler is one     *)
(* action.  Request data are drawn from values the store's field           *)
(* validation accepts; ids that name no Game, Status or Event are drawn    *)
(* as well.                                                                *)
(***************************************************************************)
EXTENDS Integers, FiniteSets, Sequences, TLC

\* The number of Event rows ever inserted (the store's auto-increment key).
MaxEvents == 2

\* Authenticated users, and the Gamer row that wraps each of them.
Users == {"alice", "bob"}
GamerByUser == [u \in Users |-> IF u = "alice" THEN 7 ELSE 8]
Gamers == {GamerByUser[u] : u \in Users}
UserOfGamer(g) == CHOOSE u \in Users : GamerByUser[u] = g

\* Rows of the Game and Status tables; no handler writes to them.
GameIds == {1, 2}
StatusTable == [i \in {1, 2} |-> IF i = 1 THEN "Open for signing up" ELSE "Closed"]
StatusIds == DOMAIN StatusTable

\* Values a request may carry: a create names and times the event, an
\* update renames and reschedules it.
CreateNames == {"Trivia Night"}
CreateTimes == {"19:00"}
UpdateNames == {"Chess"}
UpdateTimes == {"20:30"}
EventIds == 1 .. MaxEvents
\* Ids a request may name: those of the rows above and one that names no row.
RequestGameIds == 1 .. 3
RequestStatusIds == 1 .. 3
\* The gameId query parameter arrives as text; the filter compares its number.
QueryGameIds == {"1", "2", "3"}
IntOf == [s \in QueryGameIds |-> IF s = "1" THEN 1 ELSE IF s = "2" THEN 2 ELSE 3]

\* What a foreign key of an Event row holds before it is assigned.
None == 0

\* rest_framework.status, the names the handlers use.
status == [HTTP_201_CREATED |-> 201, HTTP_204_NO_CONTENT |-> 204,
           HTTP_400_BAD_REQUEST |-> 400, HTTP_404_NOT_FOUND |-> 404,
           HTTP_500_INTERNAL_SERVER_ERROR |-> 500]
HTTP_200_OK == 200

VARIABLES events, signed_up_by, nextId, request, response

vars == <<events, signed_up_by, nextId, request, response>>

----------------------------------------------------------------------------
\* Responses

Response(body, code) == [code |-> code, body |-> body, unhandled |-> "none"]

\* An exception no handler catches: the framework answers 500.
Unhandled(exc) == [code |-> 500, body |-> [message |-> exc], unhandled |-> exc]

HttpResponseServerError(exc) == [code |-> 500, body |-> [message |-> exc], unhandled |-> "none"]

Empty == [empty |-> TRUE]

----------------------------------------------------------------------------
\* Object-relational lookups

EventExists(pk) == pk \in DOMAIN events

\* Event.objects.get(pk=pk): the instance of a row, with no `joined` set on it.
EventGet(pk) == [id |-> pk] @@ events[pk]

GameExists(pk) == pk \in GameIds

StatusExists(pk) == pk \in StatusIds

StatusGet(pk) == [id |-> pk, title |-> StatusTable[pk]]

\* Attribute lookup on a record-like object.
HasAttr(obj, name) == name \in DOMAIN obj

----------------------------------------------------------------------------
\* Serializers

EventGamerSerializer(g) == [user |-> UserOfGamer(g)]

GameSerializer(g) == [id |-> g]

StatusSerializer(s) == [id |-> s, title |-> StatusTable[s]]

\* `joined` is rendered from the instance attribute; an instance that was
\* never given one has nothing to render.
EventSerializer(inst) ==
    LET base == [id |-> inst.id,
                 game |-> GameSerializer(inst.game),
                 host |-> EventGamerSerializer(inst.host),
                 name |-> inst.name,
                 time |-> inst.time,
                 status |-> StatusSerializer(inst.status)]
    IN  IF HasAttr(inst, "joined")
          THEN base @@ [joined |-> inst.joined]
          ELSE base

----------------------------------------------------------------------------
\* The sign-up join table: signed_up_by[e][g] is the number of join rows
\* (event e, gamer g).

NoRows == [g \in Gamers |-> 0]

\* event.signed_up_by.all()
SignedUp(pk) == {g \in Gamers : signed_up_by[pk][g] > 0}

\* Variant of Add that inserts a join row every time.
Add_always(rows, g) == [rows EXCEPT ![g] = @ + 1]

\* event.signed_up_by.add(gamer): inserts a join row unless one is there.
Add(rows, g) == IF rows[g] = 0 THEN [rows EXCEPT ![g] = 1] ELSE rows

\* Variant of Remove that deletes the join rows of every gamer of the event.
Remove_everyone(rows, g) == NoRows

\* event.signed_up_by.remove(gamer): deletes the join rows of the gamer.
Remove(rows, g) == [rows EXCEPT ![g] = 0]

----------------------------------------------------------------------------
\* Handlers.  Each yields the store and the response it leaves behind.

Outcome(ev, su, nid, resp) ==
    [events |-> ev, signed_up_by |-> su, nextId |-> nid, response |-> resp]

\* The store as it was, with the given response.
Untouched(resp) == Outcome(events, signed_up_by, nextId, resp)

\* event.save() of a new row: the store assigns the next key.
Insert(row) ==
    [i \in DOMAIN events \cup {nextId} |-> IF i = nextId THEN row ELSE events[i]]

\* Variant of create that takes the host from the request body.
create_host_from_body(req) ==
    LET event == [name |-> req.data.name, time |-> req.data.time,
                  host |-> req.data.host, game |-> req.data.game_id, status |-> 1]
    IN  IF ~GameExists(req.data.game_id) THEN Untouched(Unhandled("Game.DoesNotExist"))
        ELSE Outcome(Insert(event), signed_up_by, nextId + 1,
                     Response(EventSerializer([id |-> nextId] @@ event),
                              status.HTTP_201_CREATED))

\* Variant of create that saves the event before it looks the game up.
create_save_first(req) ==
    LET gamer == GamerByUser[req.user]
        event == [name |-> req.data.name, time |-> req.data.time, host |-> gamer,
                  game |-> req.data.game_id, status |-> 1]
    IN  IF ~GameExists(req.data.game_id)
          THEN Outcome(Insert([event EXCEPT !.game = None]), signed_up_by, nextId + 1,
                       Unhandled("Game.DoesNotExist"))
          ELSE Outcome(Insert(event), signed_up_by, nextId + 1,
                       Response(EventSerializer([id |-> nextId] @@ event),
                                status.HTTP_201_CREATED))

\* The lookups run outside the try block, so a missing row is not caught.
\* save() raises ValidationError only for a field value the store rejects,
\* which no request here carries, so the 400 branch is never taken.
create(req) ==
    LET gamer == GamerByUser[req.user]
        event == [name |-> req.data.name, time |-> req.data.time, host |-> gamer,
                  game |-> req.data.game_id, status |-> 1]
    IN  IF ~GameExists(req.data.game_id) THEN Untouched(Unhandled("Game.DoesNotExist"))
        ELSE IF ~StatusExists(1) THEN Untouched(Unhandled("Status.DoesNotExist"))
        ELSE Outcome(Insert(event), signed_up_by, nextId + 1,
                     Response(EventSerializer([id |-> nextId] @@ event),
                              status.HTTP_201_CREATED))

retrieve(req) ==
    IF EventExists(req.pk)
      THEN Untouched(Response(EventSerializer(EventGet(req.pk)), HTTP_200_OK))
      ELSE Untouched(HttpResponseServerError("Event.DoesNotExist"))

\* Variant of update that keeps the host the event had.
update_keep_host(req) ==
    IF ~EventExists(req.pk) THEN Untouched(Unhandled("Event.DoesNotExist"))
    ELSE IF ~GameExists(req.data.gameId) THEN Untouched(Unhandled("Game.DoesNotExist"))
    ELSE IF ~StatusExists(req.data.statusId)
      THEN Untouched(Unhandled("Status.DoesNotExist"))
    ELSE Outcome([events EXCEPT ![req.pk] =
                     [name |-> req.data.name, time |-> req.data.time, host |-> @.host,
                      game |-> req.data.gameId, status |-> req.data.statusId]],
                 signed_up_by, nextId, Unhandled("AttributeError"))

\* The local name `status` of update is the Status row it looked up, so the
\* response code is read off that row.
update(req) ==
    LET host == GamerByUser[req.user]
        local_status == StatusGet(req.data.statusId)
        event == [name |-> req.data.name, time |-> req.data.time, host |-> host,
                  game |-> req.data.gameId, status |-> req.data.statusId]
        saved == [events EXCEPT ![req.pk] = event]
    IN  IF ~EventExists(req.pk) THEN Untouched(Unhandled("Event.DoesNotExist"))
        ELSE IF ~GameExists(req.data.gameId) THEN Untouched(Unhandled("Game.DoesNotExist"))
        ELSE IF ~StatusExists(req.data.statusId)
          THEN Untouched(Unhandled("Status.DoesNotExist"))
        ELSE IF HasAttr(local_status, "HTTP_204_NO_CONTENT")
          THEN Outcome(saved, signed_up_by, nextId,
                       Response(Empty, local_status.HTTP_204_NO_CONTENT))
        ELSE Outcome(saved, signed_up_by, nextId, Unhandled("AttributeError"))

\* Variant of destroy that answers 204 and deletes nothing.
destroy_keep(req) ==
    IF EventExists(req.pk)
      THEN Untouched(Response(Empty, status.HTTP_204_NO_CONTENT))
      ELSE Untouched(Response([message |-> "Event matching query does not exist."],
                              status.HTTP_404_NOT_FOUND))

\* event.delete() removes the row and, with it, its join rows.
destroy(req) ==
    IF EventExists(req.pk)
      THEN Outcome([i \in DOMAIN events \ {req.pk} |-> events[i]],
                   [signed_up_by EXCEPT ![req.pk] = NoRows], nextId,
                   Response(Empty, status.HTTP_204_NO_CONTENT))
      ELSE Untouched(Response([message |-> "Event matching query does not exist."],
                              status.HTTP_404_NOT_FOUND))

\* Variant of list that ignores the gameId query parameter.
list_unfiltered(req) ==
    LET gamer == GamerByUser[req.user]
        all == {EventGet(pk) @@ [joined |-> gamer \in SignedUp(pk)] : pk \in DOMAIN events}
    IN  Untouched(Response({EventSerializer(e) : e \in all}, HTTP_200_OK))

\* The loop sets `joined` on the instances of the first query; the filter
\* runs a second query, whose instances are new.
list(req) ==
    LET gamer == GamerByUser[req.user]
        all == {EventGet(pk) @@ [joined |-> gamer \in SignedUp(pk)] : pk \in DOMAIN events}
        filtered == {EventGet(pk) : pk \in {i \in DOMAIN events :
                                              events[i].game = IntOf[req.query.gameId]}}
        result == IF HasAttr(req.query, "gameId") THEN filtered ELSE all
    IN  Untouched(Response({EventSerializer(e) : e \in result}, HTTP_200_OK))

\* Variant of signup that does not look the event up first.
signup_unchecked(req) ==
    LET gamer == GamerByUser[req.user]
    IN  IF req.method = "POST"
          THEN Outcome(events,
                       [signed_up_by EXCEPT ![req.pk] = Add(@, gamer)], nextId,
                       Response(Empty, status.HTTP_201_CREATED))
          ELSE Outcome(events,
                       [signed_up_by EXCEPT ![req.pk] = Remove(@, gamer)], nextId,
                       Response(Empty, status.HTTP_204_NO_CONTENT))

\* add and remove on an existing event and gamer do not fail, so the two
\* inner except branches are never taken.
signup(req) ==
    LET gamer == GamerByUser[req.user]
    IN  IF ~EventExists(req.pk)
          THEN Untouched(Response([message |-> "Event does not exist."],
                                  status.HTTP_400_BAD_REQUEST))
        ELSE IF req.method = "POST"
          THEN Outcome(events,
                       [signed_up_by EXCEPT ![req.pk] = Add(@, gamer)], nextId,
                       Response(Empty, status.HTTP_201_CREATED))
        ELSE Outcome(events,
                     [signed_up_by EXCEPT ![req.pk] = Remove(@, gamer)], nextId,
                     Response(Empty, status.HTTP_204_NO_CONTENT))

----------------------------------------------------------------------------
\* Requests

Request(op, method, user, pk, data, query) ==
    [op |-> op, method |-> method, user |-> user, pk |-> pk, data |-> data,
     query |-> query]

NoQuery == [none |-> TRUE]

CreateData == [name : CreateNames, time : CreateTimes, game_id : RequestGameIds, host : Gamers]
UpdateData == [name : UpdateNames, time : UpdateTimes, gameId : RequestGameIds,
               statusId : RequestStatusIds]
ListQueries == {NoQuery} \cup [gameId : QueryGameIds]

Handle(req, out) ==
    /\ request' = req
    /\ events' = out.events
    /\ signed_up_by' = out.signed_up_by
    /\ nextId' = out.nextId
    /\ response' = out.response

Init ==
    /\ events = [i \in {} |-> None]
    /\ signed_up_by = [e \in EventIds |-> NoRows]
    /\ nextId = 1
    /\ request = Request("none", "GET", "alice", 0, Empty, NoQuery)
    /\ response = Response(Empty, HTTP_200_OK)

Create ==
    /\ nextId <= MaxEvents
    /\ \E u \in Users, d \in CreateData :
          LET req == Request("create", "POST", u, 0, d, NoQuery)
          IN  Handle(req, create(req))

Retrieve ==
    \E u \in Users, pk \in EventIds :
        LET req == Request("retrieve", "GET", u, pk, Empty, NoQuery)
        IN  Handle(req, retrieve(req))

Update ==
    \E u \in Users, pk \in EventIds, d \in UpdateData :
        LET req == Request("update", "PUT", u, pk, d, NoQuery)
        IN  Handle(req, update(req))

Destroy ==
    \E u \in Users, pk \in EventIds :
        LET req == Request("destroy", "DELETE", u, pk, Empty, NoQuery)
        IN  Handle(req, destroy(req))

List ==
    \E u \in Users, q \in ListQueries :
        LET req == Request("list", "GET", u, 0, Empty, q)
        IN  Handle(req, list(req))

Signup ==
    \E u \in Users, pk \in EventIds, m \in {"POST", "DELETE"} :
        LET req == Request("signup", m, u, pk, Empty, NoQuery)
        IN  Handle(req, signup(req))

Next == Create \/ Retrieve \/ Update \/ Destroy \/ List \/ Signup

Spec == Init /\ [][Next]_vars

----------------------------------------------------------------------------
\* Shorthands for the request just handled

Requester == GamerByUser[request.user]

Filtered == HasAttr(request.query, "gameId")

\* The Event row an update payload describes, hosted by gamer g.
Payload(d, g) ==
    [name |-> d.name, time |-> d.time, host |-> g, game |-> d.gameId,
     status |-> d.statusId]

OtherEventsKept(pk) ==
    \A i \in DOMAIN events \ {pk} : i \in DOMAIN events' /\ events'[i] = events[i]

----------------------------------------------------------------------------
\* C1: an update whose event id, gameId and statusId all exist overwrites
\* the event, persists it and answers 204 with an empty body, never an
\* unhandled fault.
C1_UpdateAnswers204 ==
    (/\ request.op = "update"
     /\ EventExists(request.pk)
     /\ GameExists(request.data.gameId)
     /\ StatusExists(request.data.statusId))
    => /\ events[request.pk] = Payload(request.data, Requester)
       /\ response.unhandled = "none"
       /\ response.code = 204
       /\ response.body = Empty

\* C2: with or without the gameId filter, every event a list response
\* carries reports `joined` as whether the requester is in its sign-up set.
C2_JoinedIsMembership ==
    request.op = "list"
    => \A r \in response.body :
          /\ HasAttr(r, "joined")
          /\ r.joined = (Requester \in SignedUp(r.id))

\* C3: a create that names an existing game adds exactly one event, with
\* status 1, hosted by the requester whatever host the body names, for the
\* named game, and answers 201 with that event.
C3_CreateAddsHostedOpenEvent ==
    [][(request'.op = "create" /\ GameExists(request'.data.game_id))
        => /\ nextId \notin DOMAIN events
           /\ DOMAIN events' = DOMAIN events \cup {nextId}
           /\ \A i \in DOMAIN events : events'[i] = events[i]
           /\ events'[nextId] = [name |-> request'.data.name,
                                 time |-> request'.data.time,
                                 host |-> GamerByUser[request'.user],
                                 game |-> request'.data.game_id,
                                 status |-> 1]
           /\ signed_up_by' = signed_up_by
           /\ response'.code = 201
           /\ response'.unhandled = "none"
           /\ response'.body.id = nextId
           /\ response'.body.status.id = 1
           /\ response'.body.host = [user |-> request'.user]
           /\ response'.body.game.id = request'.data.game_id
           /\ response'.body.name = request'.data.name
           /\ response'.body.time = request'.data.time]_vars

C3_Witness ==
    /\ request.op = "create"
    /\ response.code = 201
    /\ request.data.host # Requester
    /\ \E i \in DOMAIN events :
          /\ response.body.id = i
          /\ events[i].host = Requester
          /\ events[i].status = 1
          /\ events[i].game = 2

\* C4: on an existing event a signup POST leaves the requester in the
\* sign-up set and answers 201, a signup DELETE leaves the requester out of
\* it and answers 204, also after repeated POSTs, and no membership is ever
\* held twice.
C4_SignupJoinsAndLeaves ==
    /\ \A e \in EventIds, g \in Gamers : signed_up_by[e][g] <= 1
    /\ (request.op = "signup" /\ EventExists(request.pk))
       => /\ response.body = Empty
          /\ request.method = "POST"
             => (Requester \in SignedUp(request.pk) /\ response.code = 201)
          /\ request.method = "DELETE"
             => (Requester \notin SignedUp(request.pk) /\ response.code = 204)

C4_Witness ==
    /\ request.op = "signup"
    /\ request.method = "DELETE"
    /\ response.code = 204
    /\ EventExists(request.pk)
    /\ SignedUp(request.pk) = Gamers \ {Requester}

\* C5: a signup POST or DELETE that names no existing event answers 400
\* with the message 'Event does not exist.' and changes no event and no
\* sign-up set.
C5_SignupOnMissingEvent ==
    [][(request'.op = "signup" /\ ~EventExists(request'.pk))
        => /\ response' = Response([message |-> "Event does not exist."], 400)
           /\ events' = events
           /\ signed_up_by' = signed_up_by]_vars

C5_Witness ==
    /\ request.op = "signup"
    /\ ~EventExists(request.pk)
    /\ response.code = 400
    /\ \E i \in DOMAIN events : SignedUp(i) # {}

C7_ListFilter ==
    request.op = "list"
    => LET want == IF Filtered
                     THEN {i \in DOMAIN events :
                             events[i].game = IntOf[request.query.gameId]}
                     ELSE DOMAIN events
       IN  /\ {r.id : r \in response.body} = want
           /\ Cardinality(response.body) = Cardinality(want)
           /\ \A r \in response.body :
                 /\ r.game.id = events[r.id].game
                 /\ r.name = events[r.id].name
                 /\ r.status.id = events[r.id].status

C7_Witness ==
    /\ request.op = "list"
    /\ Filtered
    /\ Cardinality(DOMAIN events) = 2
    /\ Cardinality(response.body) = 1

\* C8: a signup changes at most the requester's membership of the
\* addressed event: no event is created, deleted or altered, and no other
\* gamer's membership and no other event's sign-up set changes.
C8_SignupFrame ==
    [][request'.op = "signup"
        => /\ events' = events
           /\ nextId' = nextId
           /\ \A e \in EventIds, g \in Gamers :
                 (e # request'.pk \/ g # GamerByUser[request'.user])
                 => signed_up_by'[e][g] = signed_up_by[e][g]]_vars

C8_Witness ==
    /\ request.op = "signup"
    /\ request.method = "DELETE"
    /\ EventExists(request.pk)
    /\ SignedUp(request.pk) = Gamers \ {Requester}
    /\ \E e \in DOMAIN events \ {request.pk} : Requester \in SignedUp(e)

\* C9: update of an existing event with an existing game and status makes
\* the requester its host and sets name, time, game and status from the
\* payload, whatever they were; it leaves the sign-up sets and the other
\* events alone; update of a missing event id ends in an unhandled
\* not-found fault and changes nothing.
C9_UpdateOverwrites ==
    [][request'.op = "update"
        => /\ (/\ EventExists(request'.pk)
               /\ GameExists(request'.data.gameId)
               /\ StatusExists(request'.data.statusId))
              => /\ DOMAIN events' = DOMAIN events
                 /\ events'[request'.pk]
                      = Payload(request'.data, GamerByUser[request'.user])
                 /\ OtherEventsKept(request'.pk)
                 /\ signed_up_by' = signed_up_by
           /\ ~EventExists(request'.pk)
              => /\ response'.unhandled = "Event.DoesNotExist"
                 /\ response'.code = 500
                 /\ events' = events
                 /\ signed_up_by' = signed_up_by]_vars

C9_Witness ==
    /\ request.op = "update"
    /\ EventExists(request.pk)
    /\ events[request.pk] = Payload(request.data, Requester)
    /\ events[request.pk].status = 2
    /\ SignedUp(request.pk) = Gamers \ {Requester}
    /\ \E e \in DOMAIN events \ {request.pk} : events[e].host # Requester

\* C10: every stored event has a host that is a Gamer, a game that is a
\* Game and a status that is a Status, and a create or update that names a
\* missing game, status or event writes nothing.
C10_EventsWellFormed ==
    /\ [](\A i \in DOMAIN events :
             /\ events[i].host \in Gamers
             /\ events[i].game \in GameIds
             /\ events[i].status \in StatusIds)
    /\ [][/\ (request'.op = "create" /\ ~GameExists(request'.data.game_id))
             => (events' = events /\ response'.code = 500)
          /\ (/\ request'.op = "update"
              /\ \/ ~EventExists(request'.pk)
                 \/ ~GameExists(request'.data.gameId)
                 \/ ~StatusExists(request'.data.statusId))
             => (events' = events /\ response'.code = 500)]_vars

C10_Witness ==
    /\ request.op = "update"
    /\ EventExists(request.pk)
    /\ ~StatusExists(request.data.statusId)
    /\ response.unhandled = "Status.DoesNotExist"
    /\ events[request.pk].status \in StatusIds

====
